---- MODULE Spec2Model ----
(***************************************************************************)
(* Model of src/script.py: the conversion of brace-delimited source text   *)
(* into indentation form (convert_curly_to_indented and its helpers).      *)
(*                                                                         *)
(* Text is a sequence of one-character strings.  The alphabet is the       *)
(* lowercase letters, the space, the newline and the characters            *)
(*   #  "  :  =  (  )  {  }                                                *)
(* Over this alphabet "\n" is the only line boundary (str.splitlines and   *)
(* io.StringIO.readline agree on it) and the space and the newline are the *)
(* only whitespace (str.strip, str.lstrip, str.rstrip).                    *)
(* Sequence indices are 1-based; columns and line indices stored in the    *)
(* protected set are 0-based as in the source.                             *)
(***************************************************************************)
EXTENDS Integers, Sequences, FiniteSets, TLC

VARIABLES
    code,          \* the argument of convert_curly_to_indented
    pc,            \* "start", "loop", "returned" or "raised"
    lines,         \* code.splitlines(keepends=False)
    protected,     \* the set get_protected_positions returned
    line_idx,      \* the number of lines the for loop has processed
    indent_level,
    output_lines,
    found,         \* the last line processed: "open", "close" or "none" (found_scoping_brace)
    brace_pos,     \* the 0-based column i where the scan of that line stopped, -1 if it did not
    result         \* the value returned

vars == <<code, pc, lines, protected, line_idx, indent_level, output_lines, found, brace_pos, result>>

\* ------------------------------------------------------------------ bounds
\* Largest number of source lines of an input.
MaxLines == 3

\* ------------------------------------------------------------- characters
NL == "\n"
SP == " "
QUOTE == "\""
HASH == "#"
OPEN == "{"
CLOSE == "}"
COLON == ":"

Letters == {"a", "b", "c", "d", "e", "f", "g", "h", "i", "j", "k", "l", "m",
            "n", "o", "p", "q", "r", "s", "t", "u", "v", "w", "x", "y", "z"}

\* str.isspace over the alphabet.
IsSpace(c) == c \in {SP, NL}

Min(a, b) == IF a < b THEN a ELSE b
Max(a, b) == IF a > b THEN a ELSE b

\* s[a..b] clamped to the sequence, <<>> when empty (Python slice s[a-1:b]).
Slice(s, a, b) == IF a > b \/ a > Len(s) THEN <<>> ELSE SubSeq(s, Max(a, 1), Min(b, Len(s)))

\* str.lstrip(): index of the first non-whitespace character, Len(s)+1 if none.
RECURSIVE FirstNonSpace(_, _)
FirstNonSpace(s, i) ==
    IF i > Len(s) THEN i
    ELSE IF IsSpace(s[i]) THEN FirstNonSpace(s, i + 1) ELSE i

\* index of the last non-whitespace character at or before i, 0 if none.
RECURSIVE LastNonSpace(_, _)
LastNonSpace(s, i) ==
    IF i < 1 THEN 0
    ELSE IF IsSpace(s[i]) THEN LastNonSpace(s, i - 1) ELSE i

LStrip(s) == Slice(s, FirstNonSpace(s, 1), Len(s))
RStrip(s) == Slice(s, 1, LastNonSpace(s, Len(s)))
Strip(s) == RStrip(LStrip(s))

\* str.startswith(c) for a single character c.
StartsWith(s, c) == Len(s) >= 1 /\ s[1] = c

\* str.endswith(c) for a single character c.
EndsWith(s, c) == Len(s) >= 1 /\ s[Len(s)] = c

\* c in s
Contains(s, c) == \E i \in 1..Len(s) : s[i] = c

\* s.index(c) as a 1-based index (c occurs in s).
IndexOf(s, c) == CHOOSE i \in 1..Len(s) : s[i] = c /\ \A j \in 1..(i - 1) : s[j] # c

\* s.rindex(c) as a 1-based index (c occurs in s).
RIndexOf(s, c) == CHOOSE i \in 1..Len(s) : s[i] = c /\ \A j \in (i + 1)..Len(s) : s[j] # c

\* ------------------------------------------------------------------ lines
\* str.splitlines(keepends): the text cut after each "\n"; a text that ends
\* with "\n" has no empty last line.
RECURSIVE SplitFrom(_, _, _, _)
SplitFrom(s, start, i, keepends) ==
    IF i > Len(s)
    THEN IF start > Len(s) THEN <<>> ELSE <<Slice(s, start, Len(s))>>
    ELSE IF s[i] = NL
         THEN <<Slice(s, start, IF keepends THEN i ELSE i - 1)>>
              \o SplitFrom(s, i + 1, i + 1, keepends)
         ELSE SplitFrom(s, start, i + 1, keepends)

SplitLines(s, keepends) == SplitFrom(s, 1, 1, keepends)

\* '\n'.join(ls)
RECURSIVE JoinLines(_)
JoinLines(ls) ==
    IF Len(ls) = 0 THEN <<>>
    ELSE IF Len(ls) = 1 THEN ls[1]
    ELSE ls[1] \o <<NL>> \o JoinLines(Tail(ls))

\* ------------------------------------------------------------- tokenizer
\* tokenize.generate_tokens (CPython 3.11, Lib/tokenize.py, _tokenize) over
\* the alphabet, as called at src/script.py line 10.  Only what decides the
\* STRING and COMMENT tokens and the errors is kept: the bracket level, the
\* indentation stack and the open triple-quoted string.  A token is
\* [type, sl, sc, el, ec] with the tokenizer's 1-based line numbers and
\* 0-based columns, ec exclusive.
StringPrefixes1 == {"b", "r", "u", "f"}
StringPrefixes2 == {<<"b", "r">>, <<"r", "b">>, <<"f", "r">>, <<"r", "f">>}

QuoteAt(line, i) == i >= 1 /\ i <= Len(line) /\ line[i] = QUOTE
TripleAt(line, i) == QuoteAt(line, i) /\ QuoteAt(line, i + 1) /\ QuoteAt(line, i + 2)

\* StringPrefix of k characters at p (the empty prefix included).
IsPrefixAt(line, p, k) ==
    \/ k = 0
    \/ k = 1 /\ p <= Len(line) /\ line[p] \in StringPrefixes1
    \/ k = 2 /\ p + 1 <= Len(line) /\ <<line[p], line[p + 1]>> \in StringPrefixes2

\* Triple: the length of the prefix of a triple-quoted string opening at p, -1 if none.
TriplePrefixLen(line, p) ==
    IF \E k \in 0..2 : IsPrefixAt(line, p, k) /\ TripleAt(line, p + k)
    THEN CHOOSE k \in 0..2 : IsPrefixAt(line, p, k) /\ TripleAt(line, p + k)
    ELSE -1

\* ContStr: the length of the prefix of a single-quoted string opening at p, -1 if none.
StringPrefixLen(line, p) ==
    IF \E k \in 0..2 : IsPrefixAt(line, p, k) /\ QuoteAt(line, p + k)
    THEN CHOOSE k \in 0..2 : IsPrefixAt(line, p, k) /\ QuoteAt(line, p + k)
    ELSE -1

\* Double3: the first index >= i where three quotes begin, 0 if none.
RECURSIVE FindTriple(_, _)
FindTriple(line, i) ==
    IF i > Len(line) THEN 0
    ELSE IF TripleAt(line, i) THEN i ELSE FindTriple(line, i + 1)

\* the closing quote of ContStr: the first quote at or after i, 0 if none.
RECURSIVE FindQuote(_, _)
FindQuote(line, i) ==
    IF i > Len(line) THEN 0
    ELSE IF line[i] = QUOTE THEN i ELSE FindQuote(line, i + 1)

\* Whitespace = [ \f\t]*: the first index >= i that holds no space.
RECURSIVE SkipSpaces(_, _)
SkipSpaces(line, i) ==
    IF i > Len(line) THEN i
    ELSE IF line[i] = SP THEN SkipSpaces(line, i + 1) ELSE i

\* Name = \w+: the last index of the run of letters that starts at p.
RECURSIVE NameEnd(_, _)
NameEnd(line, p) ==
    IF p + 1 <= Len(line) /\ line[p + 1] \in Letters THEN NameEnd(line, p + 1) ELSE p

\* Comment = #[^\r\n]*: the last index of the comment that starts at p.
CommentEnd(line, p) == IF EndsWith(line, NL) THEN Len(line) - 1 ELSE Len(line)

Emit(st, type, sl, sc, el, ec) ==
    [st EXCEPT !.tokens = Append(@, [type |-> type, sl |-> sl, sc |-> sc, el |-> el, ec |-> ec])]

\* The token loop of one line (while pos < max) from index pos.
RECURSIVE ScanTokens(_, _, _, _)
ScanTokens(line, pos, lnum, st) ==
    LET p == SkipSpaces(line, pos) IN
    IF p > Len(line) THEN st
    ELSE LET c  == line[p]
             tk == TriplePrefixLen(line, p)
             sk == StringPrefixLen(line, p)
         IN
         IF c = NL THEN ScanTokens(line, p + 1, lnum, st)
         ELSE IF c = HASH
         THEN ScanTokens(line, CommentEnd(line, p) + 1, lnum,
                         Emit(st, "COMMENT", lnum, p - 1, lnum, CommentEnd(line, p)))
         ELSE IF tk >= 0
         THEN LET q == FindTriple(line, p + tk + 3) IN
              IF q > 0
              THEN ScanTokens(line, q + 3, lnum, Emit(st, "STRING", lnum, p - 1, lnum, q + 2))
              ELSE [st EXCEPT !.contstr = TRUE, !.strstart = <<lnum, p - 1>>]
         ELSE IF sk >= 0 /\ FindQuote(line, p + sk + 1) > 0
         THEN LET q == FindQuote(line, p + sk + 1) IN
              ScanTokens(line, q + 1, lnum, Emit(st, "STRING", lnum, p - 1, lnum, q))
         ELSE IF c \in Letters THEN ScanTokens(line, NameEnd(line, p) + 1, lnum, st)
         ELSE IF c \in {"(", OPEN}
         THEN ScanTokens(line, p + 1, lnum, [st EXCEPT !.parenlev = @ + 1])
         ELSE IF c \in {")", CLOSE}
         THEN ScanTokens(line, p + 1, lnum, [st EXCEPT !.parenlev = @ - 1])
         ELSE ScanTokens(line, p + 1, lnum, st)   \* another operator, or an ERRORTOKEN

\* The dedent loop: pops the indentation stack down to column, or fails.
RECURSIVE Dedent(_, _)
Dedent(st, column) ==
    IF column < st.indents[Len(st.indents)]
    THEN IF \A k \in 1..Len(st.indents) : st.indents[k] # column
         THEN [st EXCEPT !.err = "IndentationError"]
         ELSE Dedent([st EXCEPT !.indents = SubSeq(@, 1, Len(@) - 1)], column)
    ELSE st

\* One pass of the loop over the lines of the stream, for a non-empty line.
TokLine(st, line, lnum) ==
    IF st.contstr
    THEN LET q == FindTriple(line, 1) IN
         IF q > 0
         THEN ScanTokens(line, q + 3, lnum,
                         [Emit(st, "STRING", st.strstart[1], st.strstart[2], lnum, q + 2)
                            EXCEPT !.contstr = FALSE])
         ELSE st
    ELSE IF st.parenlev = 0
    THEN LET p == SkipSpaces(line, 1)
             column == p - 1
         IN
         IF p > Len(line) THEN [st EXCEPT !.stop = TRUE]
         ELSE IF line[p] = HASH
         THEN Emit(st, "COMMENT", lnum, p - 1, lnum, CommentEnd(line, p))
         ELSE IF line[p] = NL THEN st
         ELSE LET pushed == IF column > st.indents[Len(st.indents)]
                            THEN [st EXCEPT !.indents = Append(@, column)]
                            ELSE st
                  ded == Dedent(pushed, column)
              IN
              IF ded.err # "none" THEN ded ELSE ScanTokens(line, p, lnum, ded)
    ELSE ScanTokens(line, 1, lnum, st)

\* The loop over the lines, from line lnum on; readline returning '' ends it.
RECURSIVE TokLoop(_, _, _)
TokLoop(st, ls, lnum) ==
    IF st.err # "none" \/ st.stop THEN st
    ELSE IF lnum > Len(ls)
    THEN IF st.contstr \/ st.parenlev # 0
         THEN [st EXCEPT !.err = "TokenError"]
         ELSE st
    ELSE TokLoop(TokLine(st, ls[lnum], lnum), ls, lnum + 1)

\* io.StringIO(code).readline: the lines of the text, line ends kept.
ReadLines(s) == SplitLines(s, TRUE)

generate_tokens(s) ==
    TokLoop([parenlev |-> 0, indents |-> <<0>>, contstr |-> FALSE, strstart |-> <<0, 0>>,
             tokens |-> <<>>, err |-> "none", stop |-> FALSE],
            ReadLines(s), 1)

\* -------------------------------------------------- get_protected_positions
\* The positions one STRING or COMMENT token adds.
TokenPositions(tok, keptlines) ==
    LET sl == tok.sl - 1
        el == tok.el - 1
    IN
    IF sl = el
    THEN {<<sl, c>> : c \in tok.sc..(tok.ec - 1)}
    ELSE UNION {
           IF l >= Len(keptlines) THEN {}
           ELSE LET line_len == Len(keptlines[l + 1]) IN
                IF l = sl THEN {<<l, c>> : c \in tok.sc..(line_len - 1)}
                ELSE IF l = el THEN {<<l, c>> : c \in 0..(Min(tok.ec, line_len) - 1)}
                ELSE {<<l, c>> : c \in 0..(line_len - 1)}
           : l \in sl..el}

\* [protected, raised]: the set returned, or the exception that escapes
\* (TokenError is caught at line 31; IndentationError is not).
get_protected_positions(s) ==
    LET toks == generate_tokens(s)
        keptlines == SplitLines(s, TRUE)
    IN
    [protected |-> UNION {TokenPositions(toks.tokens[k], keptlines) : k \in 1..Len(toks.tokens)},
     raised |-> IF toks.err = "IndentationError" THEN toks.err ELSE "none"]

\* ------------------------------------------------------- the brace classifier
extract_comment_after_brace(text) ==
    LET stripped == LStrip(text) IN
    IF StartsWith(stripped, HASH) THEN stripped
    ELSE IF Contains(stripped, HASH) THEN Slice(stripped, IndexOf(stripped, HASH), Len(stripped))
    ELSE <<>>

\* Lines 49-65: the two placements of a scoping open brace.  pos is the
\* 1-based index of the brace in line.
OpenHeuristics(line, pos) ==
    LET before == Slice(line, 1, pos - 1)
        after == Slice(line, pos + 1, Len(line))
        stripped == Strip(line)
    IN
    \/ /\ Contains(before, COLON)
       /\ Strip(Slice(before, RIndexOf(before, COLON) + 1, Len(before))) = <<>>
       /\ \/ Strip(after) = <<>>
          \/ StartsWith(Strip(after), HASH)
    \/ stripped = <<OPEN>>
    \/ /\ StartsWith(stripped, OPEN)
       /\ extract_comment_after_brace(Tail(stripped)) # <<>>

\* Variant: the protected set is not consulted.
is_scoping_open_brace_unvetoed(line, pos, idx, prot) == OpenHeuristics(line, pos)

\* idx is the 0-based line index.
is_scoping_open_brace(line, pos, idx, prot) ==
    IF <<idx, pos - 1>> \in prot THEN FALSE ELSE OpenHeuristics(line, pos)

is_scoping_close_brace(line, pos, idx, prot) ==
    IF <<idx, pos - 1>> \in prot THEN FALSE
    ELSE LET stripped == Strip(line) IN
         \/ stripped = <<CLOSE>>
         \/ /\ StartsWith(stripped, CLOSE)
            /\ \/ LStrip(Tail(stripped)) = <<>>
               \/ StartsWith(LStrip(Tail(stripped)), HASH)

\* The scan of one line (while i < len(line)) from index i: the 1-based index
\* of the first brace classified as scoping, 0 if the scan reaches the end.
RECURSIVE ScanLine(_, _, _, _)
ScanLine(line, i, idx, prot) ==
    IF i > Len(line) THEN 0
    ELSE IF line[i] = OPEN /\ is_scoping_open_brace(line, i, idx, prot) THEN i
    ELSE IF line[i] = CLOSE /\ is_scoping_close_brace(line, i, idx, prot) THEN i
    ELSE ScanLine(line, i + 1, idx, prot)

\* "    " * n
RECURSIVE Indent(_)
Indent(n) == IF n <= 0 THEN <<>> ELSE <<SP, SP, SP, SP>> \o Indent(n - 1)

\* The line emitted for a scoping open brace at index i (lines 99-107).
OpenLine(line, i) ==
    LET before == RStrip(Slice(line, 1, i - 1))
        comment == extract_comment_after_brace(Slice(line, i + 1, Len(line)))
    IN
    IF comment # <<>>
    THEN before \o (IF before # <<>> THEN <<SP, SP>> ELSE <<>>) \o comment
    ELSE before

\* Variant: the decrement is not floored at 0.
CloseLevel_unfloored(level) == level - 1

\* Variant: a scoping close brace leaves the depth as it is.
CloseLevel_kept(level) == level

\* indent_level after a scoping close brace (line 115).
CloseLevel(level) == Max(0, level - 1)

\* Variant: the line keeps its leading whitespace.
RegularLine_unstripped(line, level) ==
    IF LStrip(line) # <<>> THEN Indent(level) \o line ELSE <<>>

\* The line emitted for a line without a scoping brace (lines 131-136).
RegularLine(line, level) ==
    LET stripped == LStrip(line) IN
    IF stripped # <<>> THEN Indent(level) \o stripped ELSE <<>>

\* Variant: the post-pass keeps every line.
CleanLines_keepall(out, cleaned) == cleaned \o out

\* The post-pass (lines 139-143): a blank line after a blank line is dropped.
RECURSIVE CleanLines(_, _)
CleanLines(out, cleaned) ==
    IF out = <<>> THEN cleaned
    ELSE IF Head(out) = <<>> /\ cleaned # <<>> /\ cleaned[Len(cleaned)] = <<>>
         THEN CleanLines(Tail(out), cleaned)
         ELSE CleanLines(Tail(out), Append(cleaned, Head(out)))

\* Lines 146-149.
Reconstruct(cleaned, src) ==
    JoinLines(cleaned) \o (IF EndsWith(src, NL) THEN <<NL>> ELSE <<>>)

\* ----------------------------------------------------------------- inputs
\* The source lines inputs are made of.
SrcLines == {
    <<>>,
    <<SP>>,
    <<"i", "f", SP, "x", COLON, SP, OPEN>>,
    <<SP, SP, SP, SP, "y", "(", ")">>,
    <<CLOSE, SP, HASH, SP, "d", "o", "n", "e">>,
    <<CLOSE>>,
    <<OPEN>>,
    <<QUOTE, QUOTE, QUOTE>>,
    <<SP, SP, "a">>,
    <<OPEN, SP, "a", SP, CLOSE, SP, HASH, SP, "c">>,
    <<"x", SP, "=", SP, QUOTE, CLOSE, QUOTE, SP, HASH, COLON, SP, OPEN>> }

RECURSIVE LineSeqs(_)
LineSeqs(n) ==
    IF n = 0 THEN {<<>>}
    ELSE LET shorter == LineSeqs(n - 1) IN
         shorter \cup {Append(ls, l) : ls \in {t \in shorter : Len(t) = n - 1}, l \in SrcLines}

\* Up to MaxLines source lines joined by "\n", with or without a final "\n".
Inputs == {JoinLines(ls) \o tail : ls \in LineSeqs(MaxLines), tail \in {<<>>, <<NL>>}}

\* ------------------------------------------------------------- the program
Init ==
    /\ code \in Inputs
    /\ pc = "start"
    /\ lines = <<>>
    /\ protected = {}
    /\ line_idx = 0
    /\ indent_level = 0
    /\ output_lines = <<>>
    /\ found = "none"
    /\ brace_pos = -1
    /\ result = <<>>

\* Lines 81-82: empty or whitespace-only text is returned as it is.
ReturnTrivial ==
    /\ pc = "start"
    /\ Strip(code) = <<>>
    /\ pc' = "returned"
    /\ result' = code
    /\ UNCHANGED <<code, lines, protected, line_idx, indent_level, output_lines, found, brace_pos>>

\* Lines 84-87: the lines, the protected set, the empty output, depth 0.
\* An IndentationError of the tokenizer leaves get_protected_positions and
\* convert_curly_to_indented.
Prepare ==
    /\ pc = "start"
    /\ Strip(code) # <<>>
    /\ LET got == get_protected_positions(code) IN
       /\ pc' = IF got.raised # "none" THEN "raised" ELSE "loop"
       /\ protected' = IF got.raised # "none" THEN {} ELSE got.protected
    /\ lines' = SplitLines(code, FALSE)
    /\ UNCHANGED <<code, line_idx, indent_level, output_lines, found, brace_pos, result>>

\* Lines 89-136: one pass of the for loop.
ProcessLine ==
    /\ pc = "loop"
    /\ line_idx < Len(lines)
    /\ LET line == lines[line_idx + 1]
           i == ScanLine(line, 1, line_idx, protected)
       IN
       /\ brace_pos' = i - 1
       /\ IF i > 0 /\ line[i] = OPEN
          THEN /\ found' = "open"
               /\ output_lines' = IF OpenLine(line, i) # <<>>
                                  THEN Append(output_lines, OpenLine(line, i))
                                  ELSE output_lines
               /\ indent_level' = indent_level + 1
          ELSE IF i > 0
          THEN /\ found' = "close"
               /\ indent_level' = CloseLevel(indent_level)
               /\ LET comment == extract_comment_after_brace(Slice(line, i + 1, Len(line))) IN
                  output_lines' = IF comment # <<>>
                                  THEN Append(output_lines, Indent(CloseLevel(indent_level)) \o comment)
                                  ELSE output_lines
          ELSE /\ found' = "none"
               /\ output_lines' = Append(output_lines, RegularLine(line, indent_level))
               /\ UNCHANGED indent_level
    /\ line_idx' = line_idx + 1
    /\ UNCHANGED <<code, pc, lines, protected, result>>

\* Lines 138-149: the post-pass, the join and the final newline.
Finish ==
    /\ pc = "loop"
    /\ line_idx = Len(lines)
    /\ result' = Reconstruct(CleanLines(output_lines, <<>>), code)
    /\ pc' = "returned"
    /\ UNCHANGED <<code, lines, protected, line_idx, indent_level, output_lines, found, brace_pos>>

Next == ReturnTrivial \/ Prepare \/ ProcessLine \/ Finish

Spec == Init /\ [][Next]_vars

\* ------------------------------------------------------------ the claims
\* What the claims speak of, stated apart from the code's own bookkeeping.

\* p is a prefix of s.
IsPrefixOf(p, s) == Len(p) <= Len(s) /\ Slice(s, 1, Len(p)) = p

\* t occurs in s as a run of consecutive characters.
OccursIn(t, s) == \E k \in 0..(Len(s) - Len(t)) : \A j \in 1..Len(t) : s[k + j] = t[j]

\* No two consecutive lines of ls are both empty.
NoTwoEmpty(ls) == \A k \in 1..(Len(ls) - 1) : ~(ls[k] = <<>> /\ ls[k + 1] = <<>>)

\* The tokenizer's run on the input.
Lexed == generate_tokens(code)

\* The 0-based (line, column) lies in the span of tok.
InSpan(l, c, tok) ==
    /\ \/ tok.sl < l + 1
       \/ tok.sl = l + 1 /\ tok.sc <= c
    /\ \/ l + 1 < tok.el
       \/ l + 1 = tok.el /\ c < tok.ec

\* The position lies in a string or comment token the lexer yielded.
InYieldedToken(l, c) == \E k \in 1..Len(Lexed.tokens) : InSpan(l, c, Lexed.tokens[k])

\* The position lies in a triple-quoted string left open at the end of the
\* text, where the lexer stops with "EOF in multi-line string".
InOpenString(l, c) ==
    /\ Lexed.err = "TokenError"
    /\ Lexed.contstr
    /\ \/ Lexed.strstart[1] < l + 1
       \/ Lexed.strstart[1] = l + 1 /\ Lexed.strstart[2] <= c

\* The characters of tok in the text.
RECURSIVE LineStart(_, _)
LineStart(kept, l) == IF l <= 1 THEN 0 ELSE Len(kept[l - 1]) + LineStart(kept, l - 1)

TokenText(tok) ==
    LET kept == SplitLines(code, TRUE) IN
    Slice(code, LineStart(kept, tok.sl) + tok.sc + 1, LineStart(kept, tok.el) + tok.ec)

\* No line of the input holds a brace the scan classifies as scoping.
NoScopingBrace ==
    LET ls == SplitLines(code, FALSE)
        prot == get_protected_positions(code).protected
    IN \A k \in 1..Len(ls) : ScanLine(ls[k], 1, k - 1, prot) = 0

\* The last line the loop processed.
LastLine == lines[line_idx]

\* ls with leading whitespace removed from every line, and without the
\* blank lines that follow a blank line.
RECURSIVE StrippedNoRuns(_, _)
StrippedNoRuns(ls, k) ==
    IF k > Len(ls) THEN <<>>
    ELSE IF LStrip(ls[k]) = <<>> /\ k > 1 /\ LStrip(ls[k - 1]) = <<>>
         THEN StrippedNoRuns(ls, k + 1)
         ELSE <<LStrip(ls[k])>> \o StrippedNoRuns(ls, k + 1)

\* C1: the result ends with a newline if and only if the input does.
C1_NewlineFidelity ==
    pc = "returned" => (EndsWith(result, NL) <=> EndsWith(code, NL))

\* C2 (as claimed): the brace a line's scan acts on is never inside a string
\* literal or a comment, an unterminated string on which the lexer stops early
\* included.
C2_NeverInLiteral ==
    found # "none" =>
        ~(InYieldedToken(line_idx - 1, brace_pos) \/ InOpenString(line_idx - 1, brace_pos))

\* C2 (amended): the brace a line's scan acts on is never inside a string or
\* comment token that the lexer yielded before it stopped.
C2_NeverInYieldedToken ==
    found # "none" => ~InYieldedToken(line_idx - 1, brace_pos)

\* C2 witness: the lexer stopped early, and the line processed holds a brace
\* inside a yielded token that the heuristics would accept were it not
\* protected; the scan passed over it.
C2_Witness ==
    /\ pc = "loop"
    /\ line_idx >= 1
    /\ Lexed.err = "TokenError"
    /\ \E pos \in 1..Len(LastLine) :
          /\ LastLine[pos] = OPEN
          /\ InYieldedToken(line_idx - 1, pos - 1)
          /\ OpenHeuristics(LastLine, pos)
          /\ brace_pos # pos - 1

\* C3 (as claimed): no output, the output of a whitespace-only input included,
\* has two consecutive empty lines.
C3_NoBlankRunAnyInput ==
    pc = "returned" => NoTwoEmpty(SplitLines(result, FALSE))

\* C3 (amended): the output of an input that is not empty or whitespace-only
\* has no two consecutive empty lines.
C3_NoBlankRun ==
    (pc = "returned" /\ Strip(code) # <<>>) => NoTwoEmpty(SplitLines(result, FALSE))

\* C3 witness: a conversion returned whose output lines held a blank run
\* before the post-pass.
C3_Witness ==
    /\ pc = "returned"
    /\ Strip(code) # <<>>
    /\ ~NoTwoEmpty(output_lines)

\* C4: the conversion never raises.
C4_NeverRaises == pc # "raised"

\* C5 (as claimed): a text without scoping braces is returned line for line
\* as it is, at depth 0.
C5_Unchanged ==
    NoScopingBrace =>
        /\ indent_level = 0
        /\ pc = "returned" => SplitLines(result, FALSE) = SplitLines(code, FALSE)

\* C5 (amended): for a text without scoping braces that is not whitespace-only
\* the depth stays 0 and the result is the input's lines, each without its
\* leading whitespace and without the blank lines that follow a blank line,
\* joined by newlines, with the input's final newline if it has one.
C5_StrippedLines ==
    (NoScopingBrace /\ Strip(code) # <<>>) =>
        /\ indent_level = 0
        /\ pc = "returned" =>
              result = JoinLines(StrippedNoRuns(SplitLines(code, FALSE), 1))
                         \o (IF EndsWith(code, NL) THEN <<NL>> ELSE <<>>)

\* C5 witness: a text without scoping braces, with an indented line, was converted.
C5_Witness ==
    /\ pc = "returned"
    /\ NoScopingBrace
    /\ Strip(code) # <<>>
    /\ \E k \in 1..Len(lines) : StartsWith(lines[k], SP) /\ Strip(lines[k]) # <<>>

\* C6: the depth is 0 before the first line and never negative; a line with a
\* scoping open adds exactly 1, a line with a scoping close subtracts 1 or
\* leaves 0 at 0, any other line leaves it, and no such step raises.
C6_DepthStep ==
    [][ /\ line_idx = 0 => indent_level = 0
        /\ indent_level' >= 0
        /\ line_idx' = line_idx + 1 =>
              /\ pc' = "loop"
              /\ found' = "open" => indent_level' = indent_level + 1
              /\ found' = "close" =>
                    indent_level' = IF indent_level = 0 THEN 0 ELSE indent_level - 1
              /\ found' = "none" => indent_level' = indent_level ]_vars

\* C6 witness: a scoping close was processed with the depth already 0.
C6_Witness ==
    /\ pc = "loop"
    /\ line_idx = 1
    /\ found = "close"
    /\ indent_level = 0

\* C7: scenario 2.
Scenario2Input ==
    <<"i", "f", SP, "x", COLON, SP, OPEN, NL,
      SP, SP, SP, SP, "y", "(", ")", NL,
      CLOSE, SP, HASH, SP, "d", "o", "n", "e", NL>>

\* C7 (as claimed): the comment of the close-brace line comes out indented by
\* four spaces.
C7_CommentIndented ==
    (pc = "returned" /\ code = Scenario2Input) =>
        result = <<"i", "f", SP, "x", COLON, NL,
                   SP, SP, SP, SP, "y", "(", ")", NL,
                   SP, SP, SP, SP, HASH, SP, "d", "o", "n", "e", NL>>

\* C7 (amended): the comment of the close-brace line comes out at depth 0,
\* without indentation.
C7_CommentAtDepth0 ==
    (pc = "returned" /\ code = Scenario2Input) =>
        result = <<"i", "f", SP, "x", COLON, NL,
                   SP, SP, SP, SP, "y", "(", ")", NL,
                   HASH, SP, "d", "o", "n", "e", NL>>

\* C7 witness: scenario 2 was converted.
C7_Witness == pc = "returned" /\ code = Scenario2Input

\* C8: the characters of every string literal and comment of the input occur
\* in the result as they are in the input.
C8_LiteralsVerbatim ==
    pc = "returned" =>
        \A k \in 1..Len(Lexed.tokens) : OccursIn(TokenText(Lexed.tokens[k]), result)

\* C9: an open brace with no colon before it on its line is taken as scoping
\* only if the trimmed line is the brace alone or the brace followed by
\* optional whitespace and a comment.
C9_OpenAloneOnLine ==
    (found = "open" /\ ~Contains(Slice(LastLine, 1, brace_pos), COLON)) =>
        \/ Strip(LastLine) = <<OPEN>>
        \/ /\ StartsWith(Strip(LastLine), OPEN)
           /\ StartsWith(LStrip(Tail(Strip(LastLine))), HASH)

\* C10: the header emitted for a scoping open processed at depth d begins
\* with exactly 4*d spaces followed by the header's content.
C10_HeaderAtParentDepth ==
    (found = "open" /\ Strip(Slice(LastLine, 1, brace_pos)) # <<>>) =>
        /\ output_lines # <<>>
        /\ IsPrefixOf(Indent(indent_level - 1) \o Strip(Slice(LastLine, 1, brace_pos)),
                      output_lines[Len(output_lines)])

====
